---------------------------- MODULE Spec2Model ----------------------------
(***************************************************************************)
(* The LC-3 virtual machine of tylerdmace/lc3vm: the event loop of main()  *)
(* with its helpers decode, read, signExtend and updateFlag.  The          *)
(* repository holds two near-identical copies of the program, main.go and  *)
(* unnamed/part_000; they differ in the loop's bound check and in opcode   *)
(* 0.  The variable ver records which copy is running.                     *)
(***************************************************************************)
EXTENDS Integers, Naturals, Sequences, FiniteSets, TLC

(***************************************************************************)
(* Bounds of the model.                                                    *)
(***************************************************************************)
\* The longest program placed in memory, and the number of loop cycles run.
MaxCycles == 2

(***************************************************************************)
(* Program constants.                                                      *)
(***************************************************************************)
rPC == 8
rCD == 9
rCN == 10

flPOS == 1
flZRO == 2
flNEG == 4

opBR == 0
opADD == 1
opRTI == 8
opRES == 13
opTRA == 15

\* 0xFE00 and 0xFE02
rKBSR == 65024
rKBDR == 65026

\* 0x3000
pcStart == 12288

\* math.MaxUint16, the length main() gives the memory slice
MaxUint16 == 65535

\* uint16 arithmetic wraps modulo 2^16
uint16(n) == n % 65536

(***************************************************************************)
(* Pure helpers.                                                           *)
(***************************************************************************)
\* x >> n and x << n on uint16
shr(x, n) == x \div (2 ^ n)
shl(x, n) == uint16(x * (2 ^ n))

\* decode with the first source register taken one bit too low: (r >> 5) & 0x7
decodeSourceShifted(r) ==
    << shr(r, 12), shr(r, 9) % 8, shr(r, 5) % 8, shr(r, 5) % 2, r % 32 >>

\* decode: r >> 12, (r >> 9) & 0x7, (r >> 6) & 0x7, (r >> 5) & 0x1, r & 0x1F
decode(r) ==
    << shr(r, 12), shr(r, 9) % 8, shr(r, 6) % 8, shr(r, 5) % 2, r % 32 >>

\* signExtend: when bit count-1 is set, x is REPLACED by 0xFFFF << count
signExtend(x, count) ==
    IF shr(x, count - 1) % 2 = 1 THEN shl(65535, count) ELSE x

\* swap: x<<8 | x>>8 (the two halves do not overlap, so | is +)
swap(x) == shl(x, 8) + shr(x, 8)

\* updateFlag with the sign test inverted: registers[f]>>15 == 0x0
updateFlagSignInverted(regs, f) ==
    [regs EXCEPT ![rCD] =
        IF regs[f] = 0 THEN flZRO
        ELSE IF shr(regs[f], 15) = 0 THEN flNEG
        ELSE flPOS]

\* updateFlag(f): the flag register set from registers[f]
updateFlag(regs, f) ==
    [regs EXCEPT ![rCD] =
        IF regs[f] = 0 THEN flZRO
        ELSE IF shr(regs[f], 15) = 1 THEN flNEG
        ELSE flPOS]

VARIABLES
    ver,          \* "main" (main.go) or "part" (unnamed/part_000)
    memory,       \* the words stored at non-zero addresses; all others are 0
    registers,    \* [0 .. rCN-1 -> uint16]: r0..r7, rPC, rCD
    running,      \* the loop's running flag
    at,           \* the position of control in main()
    address,      \* the argument of the last read
    instruction,  \* the loop's local: the word fetched
    op, dst, srcA, flag, srcB,   \* the loop's locals: decode's results
    cycles,       \* the number of loop cycles completed
    start         \* the registers as they were before the loop

vars == << ver, memory, registers, running, at, address, instruction,
           op, dst, srcA, flag, srcB, cycles, start >>

locals == << address, instruction, op, dst, srcA, flag, srcB >>

\* len(memory): the slice is make([]uint16, math.MaxUint16)
MemLen == MaxUint16

\* an index the slice has
InMemory(a) == a >= 0 /\ a < MemLen

\* read(address): memory[address] of the zero-initialised slice
read(a) == IF a \in DOMAIN memory THEN memory[a] ELSE 0

(***************************************************************************)
(* The inputs: the program in memory, the entry point and the registers.   *)
(***************************************************************************)
\* One word of every opcode the loop leaves empty (LD .. LEA), naming R2
\* (bits 11:9) and with bits 5:0 all set.
StubWords == { o * 4096 + 2 * 512 + 63 : o \in 2 .. 14 }

\* BR: 0x0000 and 0x0E05 (BRnzp +5)
BranchWords == { 0, 3589 }

\* ADD: 0x1001 R0,R0,R1   0x1024 R0,R0,#4   0x1064 R0,R1,#4
\*      0x103F R0,R0,#31  0x1030 R0,R0,#16  0x1241 R1,R1,R1
\*      0x1E7F R7,R1,#31  0x1008/0x1009/0x100A/0x1019: register mode with
\*      bits 4:3 set (bits 4:0 = 8, 9, 10, 25)
AddWords == { 4097, 4132, 4196, 4159, 4144, 4673, 7807, 4104, 4105, 4106, 4121 }

\* TRAP: 0xF025 (HALT) and 0xF020 (GETC)
TrapWords == { 61477, 61472 }

Words == BranchWords \cup AddWords \cup StubWords \cup TrapWords

\* The words that may precede the last word of a program: they set up the
\* registers and the flag.  0x0000, 0x1001, 0x1241, 0x2400 (LD R2)
PrefixWords == { 0, 4097, 4673, 9216 }

\* The programs: at most MaxCycles words, the last one any word of Words.
Programs ==
    UNION { { p \in [1 .. n -> Words] :
                \A i \in 1 .. n - 1 : p[i] \in PrefixWords } : n \in 1 .. MaxCycles }

\* The entry points: 0x2FFF, pcStart, and two words before the end of memory.
StartPCs == { pcStart - 1, pcStart, MemLen - 2 }

\* The values r1 starts with: 0, 1, 0x7FFF, 0xFFFF
RegVals == { 0, 1, 32767, 65535 }

\* memory after program p was stored from address pc + 1 on ("Hardcode an
\* initial instruction at rPC + 1"); the zero words are left out.
Load(pc, p) ==
    LET held == { a \in pc + 1 .. pc + Len(p) : InMemory(a) /\ p[a - pc] # 0 }
    IN  [a \in held |-> p[a - pc]]

(***************************************************************************)
(* The state before the event loop: registers zeroed by make, rPC and r1   *)
(* set, the program in memory, running true.                               *)
(***************************************************************************)
Init ==
    /\ ver \in { "main", "part" }
    /\ \E pc \in StartPCs, p \in Programs, v \in RegVals :
          /\ memory = Load(pc, p)
          /\ registers = [r \in 0 .. rCN - 1 |->
                            IF r = rPC THEN pc ELSE IF r = 1 THEN v ELSE 0]
    /\ start = registers
    /\ running = TRUE
    /\ at = "increment"
    /\ address = 0
    /\ instruction = 0
    /\ op = 0 /\ dst = 0 /\ srcA = 0 /\ flag = 0 /\ srcB = 0
    /\ cycles = 0

\* The program main() stores at pcStart+1 .. pcStart+4: 0x1001 three times,
\* then 0x1024.
HardProgram == << 4097, 4097, 4097, 4132 >>

\* The state main() itself builds before the event loop: PC = pcStart,
\* r1 = 1, the four hard-coded words in memory.
InitHard ==
    /\ ver \in { "main", "part" }
    /\ memory = Load(pcStart, HardProgram)
    /\ registers = [r \in 0 .. rCN - 1 |->
                      IF r = rPC THEN pcStart ELSE IF r = 1 THEN 1 ELSE 0]
    /\ start = registers
    /\ running = TRUE
    /\ at = "increment"
    /\ address = 0
    /\ instruction = 0
    /\ op = 0 /\ dst = 0 /\ srcA = 0 /\ flag = 0 /\ srcB = 0
    /\ cycles = 0

\* The cycles the loop is followed for: the hard-coded program to its end
\* (PC passes each address of memory at most once), any other program for
\* MaxCycles cycles.
Budget == IF memory = Load(pcStart, HardProgram) THEN MemLen ELSE MaxCycles

(***************************************************************************)
(* The event loop, one action per statement.                               *)
(***************************************************************************)
\* registers[rPC] = registers[rPC] + 1
IncrementPC ==
    /\ at = "increment"
    /\ cycles < Budget
    /\ registers' = [registers EXCEPT ![rPC] = uint16(registers[rPC] + 1)]
    /\ at' = IF ver = "part" THEN "bound" ELSE "fetch"
    /\ UNCHANGED << ver, memory, running, locals, cycles, start >>

\* part_000 only: if registers[rPC] >= (uint16)(len(memory)) { break }
BoundCheck ==
    /\ at = "bound"
    /\ at' = IF registers[rPC] >= uint16(MemLen) THEN "done" ELSE "fetch"
    /\ UNCHANGED << ver, memory, registers, running, locals, cycles, start >>

\* instruction := read(registers[rPC]); an index outside the slice panics
Fetch ==
    /\ at = "fetch"
    /\ address' = registers[rPC]
    /\ IF InMemory(registers[rPC])
         THEN /\ instruction' = read(registers[rPC])
              /\ at' = "decode"
         ELSE /\ instruction' = instruction
              /\ at' = "panic"
    /\ UNCHANGED << ver, memory, registers, running, op, dst, srcA, flag,
                    srcB, cycles, start >>

\* op, dst, srcA, flag, srcB := decode(instruction)
Decode ==
    /\ at = "decode"
    /\ LET d == decode(instruction)
       IN  /\ op' = d[1] /\ dst' = d[2] /\ srcA' = d[3]
           /\ flag' = d[4] /\ srcB' = d[5]
    /\ at' = "execute"
    /\ UNCHANGED << ver, memory, registers, running, address, instruction,
                    cycles, start >>

\* main.go, case 0x0: Break (Halt)
ExecBreak ==
    /\ at = "execute" /\ op = opBR /\ ver = "main"
    /\ running' = FALSE
    /\ at' = "exit"
    /\ UNCHANGED << ver, memory, registers, locals, cycles, start >>

\* part_000, case 0x0: Branch, an empty case
ExecBranch ==
    /\ at = "execute" /\ op = opBR /\ ver = "part"
    /\ at' = "exit"
    /\ UNCHANGED << ver, memory, registers, running, locals, cycles, start >>

\* The second operand of the add: srcB itself when flag is 1, else
\* registers[srcB]
addOperand(regs, f, b) == IF f = 1 THEN b ELSE regs[b]

\* case 0x1: Add.  registers[srcB] with srcB >= len(registers) panics.
ExecAdd ==
    /\ at = "execute" /\ op = opADD
    /\ IF flag # 1 /\ srcB >= rCN
         THEN /\ at' = "panic"
              /\ registers' = registers
         ELSE /\ registers' =
                    updateFlag(
                      [registers EXCEPT ![dst] =
                          uint16(registers[srcA] + addOperand(registers, flag, srcB))],
                      dst)
              /\ at' = "exit"
    /\ UNCHANGED << ver, memory, running, locals, cycles, start >>

\* cases 0x2 .. 0xE with updateFlag(dst) run for them as it is for Add
ExecStubUpdatingFlag ==
    /\ at = "execute" /\ op \in 2 .. 14
    /\ registers' = updateFlag(registers, dst)
    /\ at' = "exit"
    /\ UNCHANGED << ver, memory, running, locals, cycles, start >>

\* cases 0x2 .. 0xE with a store filled in: the register of bits 11:9 is
\* written to memory at the address in PC
ExecStubStoring ==
    /\ at = "execute" /\ op \in 2 .. 14
    /\ memory' = [x \in DOMAIN memory \cup { registers[rPC] } |->
                    IF x = registers[rPC] THEN registers[dst] ELSE memory[x]]
    /\ at' = "exit"
    /\ UNCHANGED << ver, registers, running, locals, cycles, start >>

\* cases 0x2 .. 0xE: empty
ExecStub ==
    /\ at = "execute" /\ op \in 2 .. 14
    /\ at' = "exit"
    /\ UNCHANGED << ver, memory, registers, running, locals, cycles, start >>

\* case 0xF left empty like the cases above it: running stays true
ExecTrapEmpty ==
    /\ at = "execute" /\ op = opTRA
    /\ at' = "exit"
    /\ UNCHANGED << ver, memory, registers, running, locals, cycles, start >>

\* case 0xF: Trap
ExecTrap ==
    /\ at = "execute" /\ op = opTRA
    /\ running' = FALSE
    /\ at' = "exit"
    /\ UNCHANGED << ver, memory, registers, locals, cycles, start >>

\* if !running { break }, else the next cycle
ExitCheck ==
    /\ at = "exit"
    /\ at' = IF running THEN "increment" ELSE "done"
    /\ cycles' = cycles + 1
    /\ UNCHANGED << ver, memory, registers, running, locals, start >>

Next ==
    \/ IncrementPC
    \/ BoundCheck
    \/ Fetch
    \/ Decode
    \/ ExecBreak
    \/ ExecBranch
    \/ ExecAdd
    \/ ExecStub
    \/ ExecTrap
    \/ ExitCheck

Spec == Init /\ [][Next]_vars

\* The switch cases the hard-coded program reaches: its words are ADDs and
\* zeros.
NextHard ==
    \/ IncrementPC
    \/ BoundCheck
    \/ Fetch
    \/ Decode
    \/ ExecBreak
    \/ ExecBranch
    \/ ExecAdd
    \/ ExitCheck

SpecHard == InitHard /\ [][NextHard]_vars

TypeOK ==
    /\ ver \in { "main", "part" }
    /\ registers \in [0 .. rCN - 1 -> 0 .. 65535]
    /\ running \in BOOLEAN
    /\ at \in { "increment", "bound", "fetch", "decode", "execute", "exit",
                 "done", "panic", "call" }
    /\ instruction \in 0 .. 65535
    /\ op \in 0 .. 15 /\ dst \in 0 .. 7 /\ srcA \in 0 .. 7
    /\ flag \in 0 .. 1 /\ srcB \in 0 .. 31

(***************************************************************************)
(* One whole cycle of the event loop as a function of the registers, for   *)
(* comparing the two copies of the loop on the same memory.                *)
(***************************************************************************)
\* One pass through the body of the for loop of copy v, from registers regs:
\* the registers after it and where control is then ("increment": the loop
\* goes on; "done": it was left; "panic": an index was out of range).
cycle(v, regs) ==
    LET pc == uint16(regs[rPC] + 1)
        r1 == [regs EXCEPT ![rPC] = pc]
        d  == decode(read(pc))
    IN  IF v = "part" /\ pc >= uint16(MemLen)
          THEN [registers |-> r1, at |-> "done"]
        ELSE IF ~InMemory(pc)
          THEN [registers |-> r1, at |-> "panic"]
        ELSE IF d[1] = opBR
          THEN [registers |-> r1,
                at |-> IF v = "main" THEN "done" ELSE "increment"]
        ELSE IF d[1] = opADD
          THEN IF d[4] # 1 /\ d[5] >= rCN
                 THEN [registers |-> r1, at |-> "panic"]
                 ELSE [registers |->
                          updateFlag(
                            [r1 EXCEPT ![d[2]] =
                                uint16(r1[d[3]] + addOperand(r1, d[4], d[5]))],
                            d[2]),
                       at |-> "increment"]
        ELSE IF d[1] = opTRA
          THEN [registers |-> r1, at |-> "done"]
        ELSE [registers |-> r1, at |-> "increment"]

\* The loop of copy v followed for at most n cycles from m.
RECURSIVE run(_, _, _)
run(v, m, n) ==
    IF n = 0 \/ m.at # "increment"
      THEN m
      ELSE run(v, cycle(v, m.registers), n - 1)

\* The cycles the loop has entered so far: cycles counts those that reached
\* the check of running; a panic or the break on the bound ends one that
\* did not.
entered ==
    IF at = "panic" \/ (at = "done" /\ running) THEN cycles + 1 ELSE cycles

\* The copy in hand, between two cycles or after the loop, is where run puts
\* it: the function above and the actions describe the same loop.
RunMatchesLoop ==
    at \in { "increment", "done", "panic" } =>
        run(ver, [registers |-> start, at |-> "increment"], entered)
            = [registers |-> registers, at |-> at]

(***************************************************************************)
(* read and write called on their own, outside the event loop.             *)
(***************************************************************************)
\* The addresses and values the calls are made with: the two keyboard
\* registers and pcStart; 0, 'A', and both with bit 15 set.
CallAddresses == { rKBSR, rKBDR, pcStart }
CallValues == { 0, 65, 32768, 32833 }

\* write with the store left out, as main.go's stub has it
writeNothing(mem, a, v) == mem

\* part_000's write(address, value): memory[address] = value
write(mem, a, v) ==
    [x \in (DOMAIN mem \cup { a }) \ (IF v = 0 THEN { a } ELSE { }) |->
        IF x = a THEN v ELSE mem[x]]

\* The zeroed memory main() allocates, before anything is stored in it.
InitCalls ==
    /\ ver \in { "main", "part" }
    /\ memory = << >>
    /\ registers = [r \in 0 .. rCN - 1 |-> 0]
    /\ start = registers
    /\ running = TRUE
    /\ at = "call"
    /\ address = 0
    /\ instruction = 0
    /\ op = 0 /\ dst = 0 /\ srcA = 0 /\ flag = 0 /\ srcB = 0
    /\ cycles = 0

\* write(a, v): part_000 stores the word; main.go's write() is an empty stub
CallWrite ==
    /\ at = "call"
    /\ \E a \in CallAddresses, v \in CallValues :
          memory' = IF ver = "part" THEN write(memory, a, v)
                                   ELSE writeNothing(memory, a, v)
    /\ UNCHANGED << ver, registers, running, at, locals, cycles, start >>

\* instruction := read(a)
CallRead ==
    /\ at = "call"
    /\ \E a \in CallAddresses :
          /\ address' = a
          /\ instruction' = read(a)
    /\ UNCHANGED << ver, memory, registers, running, at, op, dst, srcA, flag,
                    srcB, cycles, start >>

NextCalls == CallWrite \/ CallRead

SpecCalls == InitCalls /\ [][NextCalls]_vars

(***************************************************************************)
(* What the claims speak of, written from their own words.                 *)
(***************************************************************************)
\* bits hi..lo of word w
Bits(w, hi, lo) == (w \div (2 ^ lo)) % (2 ^ (hi - lo + 1))

\* The low n bits of v kept, every higher bit equal to bit n-1
Sext(v, n) ==
    LET low == v % (2 ^ n)
    IN  IF low >= 2 ^ (n - 1) THEN low + (65536 - 2 ^ n) ELSE low

\* Z iff the value is 0, N iff bit 15 is 1, P otherwise
FlagOf(v) == IF v = 0 THEN flZRO ELSE IF v >= 32768 THEN flNEG ELSE flPOS

GeneralRegisters == 0 .. 7

\* C1: executing a word with opcode ADD sets register dst (bits 11:9) to
\* (src1 + operand) mod 2^16, src1 the register of bits 8:6, operand the
\* sign-extended imm5 when bit 5 is 1 and the register of bits 2:0 when it
\* is 0, and the instruction never faults.
C1_AddAsSpecified ==
    [][ (at = "execute" /\ Bits(instruction, 15, 12) = 1) =>
          /\ at' = "exit"
          /\ registers'[Bits(instruction, 11, 9)] =
                uint16(registers[Bits(instruction, 8, 6)]
                       + (IF Bits(instruction, 5, 5) = 1
                            THEN Sext(Bits(instruction, 4, 0), 5)
                            ELSE registers[Bits(instruction, 2, 0)])) ]_vars

\* C2: signExtend(value, bitWidth) for bitWidth 5, 6, 9, 11 keeps the low
\* bitWidth bits and makes every higher bit equal to bit bitWidth-1; so
\* signExtend(31, 5) = 0xFFFF, signExtend(1, 5) = 1, signExtend(15, 5) = 15.
\* Stated of the fields of every instruction the loop has fetched.
C2_SignExtendAsSpecified ==
    at = "execute" =>
        /\ \A n \in { 5, 6, 9, 11 } :
              signExtend(Bits(instruction, n - 1, 0), n) = Sext(instruction, n)
        /\ (srcB = 31 => signExtend(srcB, 5) = 65535)
        /\ (srcB = 1 => signExtend(srcB, 5) = 1)
        /\ (srcB = 15 => signExtend(srcB, 5) = 15)

\* C3: the instruction is fetched from the address PC holds and PC is then
\* incremented once, so while an instruction executes PC is the address it
\* was fetched from plus one, and the first instruction executed is the word
\* stored at the initial PC.
C3_FetchThenIncrement ==
    at = "execute" =>
        /\ registers[rPC] = uint16(address + 1)
        /\ (cycles = 0 => instruction = read(start[rPC]))

\* The state the single-step example of C4 starts from: PC = 0x2FFF,
\* memory[0x3000] = 0x1024, R1 = 1, every other general register 0.
C4_Scenario ==
    /\ start[rPC] = 12287
    /\ read(12288) = 4132
    /\ start[1] = 1
    /\ \A r \in GeneralRegisters \ { 1 } : start[r] = 0

C4_AfterOneCycle == cycles = 1 /\ at \in { "increment", "done" }

\* C4 as claimed: from that state, after exactly one cycle R0 = 5, the flag
\* register is Positive and PC = 0x3001.
C4_OneStepAsClaimed ==
    (C4_Scenario /\ C4_AfterOneCycle) =>
        /\ registers[0] = 5
        /\ registers[rCD] = flPOS
        /\ registers[rPC] = 12289

\* C4 as amended: from that state, after exactly one cycle R0 = 4 (0x1024
\* is ADD R0,R0,#4), the flag register is Positive and PC = 0x3000.
C4_OneStep ==
    (C4_Scenario /\ C4_AfterOneCycle) =>
        /\ registers[0] = 4
        /\ registers[rCD] = flPOS
        /\ registers[rPC] = 12288

C4_Witness ==
    /\ C4_Scenario /\ C4_AfterOneCycle
    /\ address = 12288 /\ instruction = 4132 /\ registers[0] = 4

\* C5: after an instruction with opcode ADD, AND, NOT, LD, LDI, LDR or LEA
\* the flag register holds the one of N, Z, P that agrees with the value now
\* in the destination register (bits 11:9).  at' = "exit": the instruction
\* was executed to its end.
C5_FlagFollowsDestination ==
    [][ (at = "execute" /\ op \in { 1, 5, 9, 2, 10, 6, 14 } /\ at' = "exit") =>
          registers'[rCD] = FlagOf(registers'[Bits(instruction, 11, 9)]) ]_vars

\* C6: in every reachable state, the initial one included, the flag register
\* holds exactly one of Negative, Zero, Positive (4, 2 or 1).
C6_ExactlyOneFlag == registers[rCD] \in { flNEG, flZRO, flPOS }

\* ST, STI, STR, JMP, JSR, TRAP, BR
NoFlagOps == { 3, 11, 7, 12, 4, 15, 0 }

\* C7: executing an instruction with opcode ST, STI, STR, JMP, JSR, TRAP or
\* BR leaves the flag register as it was before the instruction.
C7_FlagKept ==
    [][ (at = "execute" /\ op \in NoFlagOps) =>
          registers'[rCD] = registers[rCD] ]_vars

\* A flag set to Negative by an earlier ADD, and kept by a store that the
\* loop has just executed.
C7_Witness ==
    /\ at = "exit" /\ op = 3 /\ cycles = 1
    /\ registers[rCD] = flNEG

\* the instruction in hand is TRAP x25 (HALT)
HaltTrap == op = opTRA /\ Bits(instruction, 7, 0) = 37

\* C8: when TRAP HALT is executed the run state becomes halted and the loop
\* ends in that cycle: no further instruction is fetched and no register,
\* flag or memory word changes after it.
C8_HaltStops ==
    [][ /\ (at = "execute" /\ HaltTrap) => (running' = FALSE /\ at' = "exit")
        /\ (at = "exit" /\ HaltTrap) =>
              /\ at' = "done"
              /\ running' = FALSE
              /\ registers' = registers /\ memory' = memory
              /\ address' = address /\ instruction' = instruction
        /\ (at = "done" /\ HaltTrap) => FALSE ]_vars

\* the loop has ended on a TRAP HALT that was the second instruction run
C8_Witness == at = "done" /\ HaltTrap /\ ~running /\ cycles = 2

\* C9: when RTI or RES is decoded the VM faults and the loop stops in that
\* cycle, the instruction changing no register, flag or memory word.
C9_IllegalOpcodeFaults ==
    [][ /\ (at = "execute" /\ op \in { opRTI, opRES }) =>
              /\ running' = FALSE
              /\ registers' = registers /\ memory' = memory
        /\ (at = "exit" /\ op \in { opRTI, opRES }) => at' = "done" ]_vars

\* C10: the loop ends only after a TRAP (halted) or an RTI/RES (faulted):
\* never after another instruction, opcode 0 included, and never because of
\* the value of PC.
C10_StopsOnlyHaltedOrFaulted ==
    [][ (at # "done" /\ at' = "done") =>
          (at = "exit" /\ op \in { opTRA, opRTI, opRES }) ]_vars

\* C11: for a BR instruction, when one of the cond bits n/z/p (bits 11:9)
\* selects the flag now set, PC after the instruction is PC-after-increment
\* plus the sign-extended pcOffset9, modulo 2^16; when none does, PC stays
\* at PC-after-increment; registers, flags and memory are unchanged.
C11_BranchAsSpecified ==
    [][ (at = "execute" /\ op = opBR) =>
          LET cond == Bits(instruction, 11, 9)
              taken == \/ (Bits(cond, 2, 2) = 1 /\ registers[rCD] = flNEG)
                       \/ (Bits(cond, 1, 1) = 1 /\ registers[rCD] = flZRO)
                       \/ (Bits(cond, 0, 0) = 1 /\ registers[rCD] = flPOS)
          IN  /\ registers'[rPC] =
                    IF taken
                      THEN uint16(registers[rPC] + Sext(Bits(instruction, 8, 0), 9))
                      ELSE registers[rPC]
              /\ \A r \in GeneralRegisters \cup { rCD } : registers'[r] = registers[r]
              /\ memory' = memory ]_vars

\* C12: memory read and write are total over 0x0000..0xFFFF and the VM never
\* aborts: no fetch, read, write or register access indexes outside its
\* array.
C12_NeverOutOfRange == at # "panic"

\* C15: for an ADD in register mode (bit 5 = 0) the second operand is the
\* general register selected by bits 2:0 alone; bits 4:3 are ignored, so the
\* result is the same for every value of them and the instruction never
\* reads the PC slot, the flag slot or an index beyond the register file.
C15_SecondOperandFromLowThreeBits ==
    [][ (at = "execute" /\ op = opADD /\ flag = 0) =>
          /\ at' = "exit"
          /\ registers'[dst] =
                uint16(registers[srcA] + registers[Bits(instruction, 2, 0)]) ]_vars

\* C17: in part_000, started at PC = 0x3000, no instruction changes PC, so PC
\* goes up by exactly one per cycle and never wraps to 0, each address is
\* fetched at most once, and the loop ends at the first TRAP or when PC
\* reaches 0xFFFF, without ever fetching from 0xFFFF.
C17_PartAlwaysEndsCleanly ==
    [][ (ver = "part" /\ start[rPC] = pcStart) =>
          /\ registers'[rPC] \in { registers[rPC], registers[rPC] + 1 }
          /\ (registers'[rPC] # registers[rPC] => at = "increment")
          /\ (at' = "decode" => address' = start[rPC] + cycles + 1)
          /\ address' # 65535
          /\ at' # "panic"
          /\ (at' = "done" =>
                \/ (at = "exit" /\ op = opTRA)
                \/ (at = "bound" /\ registers[rPC] = 65535)) ]_vars

\* The operand fields each opcode defines, as << high bit, low bit >>:
\* BR cond, pcOffset9; ADD/AND dst, src1, mode, imm5 or src2; LD/ST/LDI/STI/
\* LEA reg, pcOffset9; JSR mode, pcOffset11 or baseR; LDR/STR reg, baseR,
\* offset6; JMP baseR; NOT dst, src; TRAP trapVect8; RTI/RES none.
FieldsOf(w) ==
    LET o == Bits(w, 15, 12)
    IN  CASE o = 0 -> { << 11, 9 >>, << 8, 0 >> }
          [] o \in { 1, 5 } ->
                { << 11, 9 >>, << 8, 6 >>, << 5, 5 >> }
                \cup (IF Bits(w, 5, 5) = 1 THEN { << 4, 0 >> } ELSE { << 2, 0 >> })
          [] o \in { 2, 3, 10, 11, 14 } -> { << 11, 9 >>, << 8, 0 >> }
          [] o = 4 ->
                { << 11, 11 >> }
                \cup (IF Bits(w, 11, 11) = 1 THEN { << 10, 0 >> } ELSE { << 8, 6 >> })
          [] o \in { 6, 7 } -> { << 11, 9 >>, << 8, 6 >>, << 5, 0 >> }
          [] o = 12 -> { << 8, 6 >> }
          [] o = 9 -> { << 11, 9 >>, << 8, 6 >> }
          [] o = 15 -> { << 7, 0 >> }
          [] OTHER -> { }

\* word w holds nothing but its opcode and the fields its opcode defines
BuiltFromFields(w) ==
    \A b \in 0 .. 11 :
        Bits(w, b, b) = 1 => \E f \in FieldsOf(w) : f[2] <= b /\ b <= f[1]

\* what the decoder in hand returned for the field whose low bit is lo: its
\* results start at bits 9, 6, 5 and 0; -1 when none starts there
Returned(lo) ==
    CASE lo = 9 -> dst [] lo = 6 -> srcA [] lo = 5 -> flag [] lo = 0 -> srcB
      [] OTHER -> -1

\* C13: an instruction word built from its opcode's defined operand fields
\* decodes to the opcode, in 0..15, and to exactly the original field values.
C13_DecodeRoundTrip ==
    (at = "execute" /\ BuiltFromFields(instruction)) =>
        /\ op \in 0 .. 15 /\ op = Bits(instruction, 15, 12)
        /\ \A f \in FieldsOf(instruction) :
              Returned(f[2]) = Bits(instruction, f[1], f[2])

\* C14: a read of 0xFE00 returns bit 15 = 1 only when the input provider has
\* a character ready, whatever was written to 0xFE00 before, and a read of
\* 0xFE02 with no character pending returns 0.  The program has no input
\* provider, so no character is ever ready.
C14_KeyboardRegistersTrapped ==
    /\ (at = "call" /\ address = rKBSR) => Bits(instruction, 15, 15) = 0
    /\ (at = "call" /\ address = rKBDR) => instruction = 0

\* C16: from main's hard-coded state (PC = 0x3000, R1 = 1, 0x1001 at
\* 0x3001..0x3003, 0x1024 at 0x3004) the run executes exactly those four ADDs
\* in address order, R0 going 1, 2, 3, 7, and it ends with R0 = 7, R1 = 1,
\* R2..R7 = 0 and the flag register Positive.
C16_HardCodedRun ==
    /\ at # "panic"
    /\ (at = "done" \/ ENABLED NextHard)
    /\ (at = "execute" /\ cycles < 4) => op = opADD
    /\ (at = "execute" /\ op = opADD) =>
          /\ cycles < 4
          /\ address = pcStart + 1 + cycles
          /\ instruction = HardProgram[cycles + 1]
    /\ (at = "exit" /\ cycles < 4) =>
          registers[0] = << 1, 2, 3, 7 >>[cycles + 1]
    /\ at = "done" =>
          /\ registers[0] = 7 /\ registers[1] = 1
          /\ \A r \in 2 .. 7 : registers[r] = 0
          /\ registers[rCD] = flPOS

\* main.go has run the four ADDs and left the loop on the zero word at 0x3005
C16_Witness ==
    /\ at = "done" /\ ver = "main" /\ cycles = 5 /\ address = pcStart + 5
    /\ registers[0] = 7 /\ registers[rCD] = flPOS

\* C18: no instruction modifies memory; an instruction changes only the
\* destination register and the flag register, and only when it is an ADD;
\* PC changes only by the loop's own +1; so memory and every general register
\* no executed ADD names as dst keep their initial values.
C18_OnlyAddWrites ==
    [][ /\ memory' = memory
        /\ (at = "execute" /\ op # opADD) => registers' = registers
        /\ (at = "execute" /\ op = opADD) =>
              \A r \in 0 .. rCN - 1 : r \notin { dst, rCD } => registers'[r] = registers[r]
        /\ at = "increment" =>
              /\ registers'[rPC] = uint16(registers[rPC] + 1)
              /\ \A r \in GeneralRegisters \cup { rCD } : registers'[r] = registers[r]
        /\ at \notin { "execute", "increment" } => registers' = registers ]_vars

\* ADD R0,R0,R1 and then a TRAP have run: R0, the ADD's dst, has changed and
\* R1 still has its initial value
C18_Witness ==
    /\ at = "done" /\ cycles = 2 /\ op = opTRA
    /\ registers[1] = start[1] /\ registers[1] # 0
    /\ registers[0] = start[1]

\* C19: main.go and part_000, started from the same memory and registers,
\* stay in lock-step: whenever main.go is between two cycles or has stopped,
\* part_000 after as many cycles has the same registers (R0..R7, flags and
\* PC), and the two differ in nothing but opcode 0, on which main.go has
\* stopped while part_000 goes on; everywhere else part_000 is going on,
\* stopped or aborted exactly as main.go is.
C19_LockStepButOpcodeZero ==
    (ver = "main" /\ at \in { "increment", "done", "panic" }) =>
        LET t == run("part", [registers |-> start, at |-> "increment"],
                     entered)
        IN  /\ t.registers = registers
            /\ t.at = IF at = "done" /\ op = opBR THEN "increment" ELSE at

=============================================================================
